---- MODULE Spec2Model ----
(***************************************************************************)
(* Model of the Socrates math tutor: the App component (conversation       *)
(* state, its event handlers and the continuations of its two async        *)
(* handlers) and the Tutor Client of services/gemini.ts.                   *)
(*                                                                         *)
(* Text is a sequence of tokens (a token is a string; " " and "\n" are     *)
(* whitespace tokens), so that trim, split and the template literals are   *)
(* computed rather than assumed.  An optional value (string | null) is a   *)
(* sequence of length 0 or 1.                                              *)
(***************************************************************************)
EXTENDS Integers, Sequences, FiniteSets, TLC

VARIABLES messages, input, isLoading, selectedImage, mimeType,
          GEMINI_API_KEY, requests, readers, unhandled, lastCall

\* messages, input, isLoading, selectedImage, mimeType: the useState cells
\*   of App.  Event handlers close over the latest render, so a handler
\*   reads the current value of each cell.
\* GEMINI_API_KEY: whether process.env.GEMINI_API_KEY is set (fixed).
\* requests: the Tutor Client calls a handler is awaiting, oldest first.
\* readers: the files a FileReader is still reading.
\* unhandled: a handler's own promise was rejected (an exception escaped
\*   startInitialAnalysis or handleSendMessage).
\* lastCall: the handler that ran last, or how the promise settled whose
\*   continuation ran last ("fulfilled" / "rejected").
vars == <<messages, input, isLoading, selectedImage, mimeType,
          GEMINI_API_KEY, requests, readers, unhandled, lastCall>>

\* ---- bounds ----
MaxLen == 4
MaxRequests == 2
MaxReads == 1

\* ---- values ----
None == <<>>
Some(v) == <<v>>

Whitespace == {" ", "\n"}

Files == {[type |-> "image/png", data |-> "iVBORw0KGgo="],
          [type |-> "image/jpeg", data |-> "/9j/4AAQSkZJRg=="]}
NoFile == [type |-> "", data |-> ""]

TypedTexts == {<<>>, <<" ", "\n">>, <<" ", "what is a derivative?">>}

RemoteOutcomes == {[ok |-> FALSE, text |-> <<>>],
                   [ok |-> TRUE, text |-> <<>>],
                   [ok |-> TRUE, text |-> <<"Let's start by identifying the function...">>]}

UploadPrompt == <<"I've uploaded a math problem. Can you help me?">>
AnalysisFallback == <<"I'm sorry, I had trouble seeing that image. Could you try uploading it again?">>
ChatFallback == <<"I'm sorry, my thoughts are a bit scattered. Could you repeat that?">>
AnalysisEmpty == <<"I'm sorry, I couldn't analyze the image. Could you try again?">>
ChatEmpty == <<"I'm having trouble thinking right now. Let's try that again.">>

\* ---- pure functions ----
RECURSIVE TrimStart(_)
TrimStart(s) ==
  IF s # <<>> /\ Head(s) \in Whitespace THEN TrimStart(Tail(s)) ELSE s

RECURSIVE TrimEnd(_)
TrimEnd(s) ==
  IF s # <<>> /\ s[Len(s)] \in Whitespace
  THEN TrimEnd(SubSeq(s, 1, Len(s) - 1)) ELSE s

Trim(s) == TrimEnd(TrimStart(s))

\* String.prototype.split: the pieces of s between occurrences of sep
RECURSIVE Split(_, _)
Split(s, sep) ==
  IF \E i \in 1..Len(s) : s[i] = sep
  THEN LET i == CHOOSE k \in 1..Len(s) :
                  s[k] = sep /\ \A j \in 1..(k - 1) : s[j] # sep
       IN <<SubSeq(s, 1, i - 1)>> \o Split(SubSeq(s, i + 1, Len(s)), sep)
  ELSE <<s>>

\* FileReader.readAsDataURL: reader.result
readAsDataURL(file) == <<"data:", file.type, ";base64", ",", file.data>>

\* `data:${type};base64,${image}`
DataURI(type, image) == <<"data:", type, ";base64", ",">> \o image

UserImageMessage(image, type) ==
  [role |-> "user", content |-> UploadPrompt, image |-> DataURI(type, image)]
UserMessage(text) == [role |-> "user", content |-> text]
ModelMessage(text) == [role |-> "model", content |-> text]

\* a projection that spreads the whole message into the entry
History_keepsImage(msgs) ==
  [i \in 1..Len(msgs) |->
     IF "image" \in DOMAIN msgs[i]
     THEN [role |-> msgs[i].role, parts |-> <<[text |-> msgs[i].content]>>,
           image |-> msgs[i].image]
     ELSE [role |-> msgs[i].role, parts |-> <<[text |-> msgs[i].content]>>]]

\* messages.map(m => ({role: m.role, parts: [{text: m.content}]}))
History(msgs) ==
  [i \in 1..Len(msgs) |->
     [role |-> msgs[i].role, parts |-> <<[text |-> msgs[i].content]>>]]

\* a guard that forgets the in-flight flag
Rejects_ignoresLoading(inp, loading) == Trim(inp) = <<>>

\* if (!input.trim() || isLoading) return;
Rejects(inp, loading) == Trim(inp) = <<>> \/ loading

\* ---- Tutor Client ----
\* response.text || "<default>"
EmptyText(op) == IF op = "analyzeMathProblem" THEN AnalysisEmpty ELSE ChatEmpty

\* how the promise of analyzeMathProblem / chatWithTutor settles when the
\* remote call ends with outcome r
TutorResult(op, r) ==
  IF ~r.ok THEN [status |-> "rejected", value |-> <<>>]
  ELSE [status |-> "fulfilled",
        value |-> IF r.text = <<>> THEN EmptyText(op) ELSE r.text]

\* the promise a Tutor Client call returns: rejected at once without a key
TutorCall(key) == IF key THEN "pending" ELSE "rejected"

\* ---- requests ----
\* requests holds the Tutor Client calls whose handler has not resumed yet,
\* in the order they were issued
Rejected == {i \in DOMAIN requests : requests[i].status = "rejected"}

\* no continuation is waiting in the microtask queue
Idle == Rejected = {}

Remove(s, i) == SubSeq(s, 1, i - 1) \o SubSeq(s, i + 1, Len(s))

\* room for one more request within the bounds of the model
Room(len) == /\ Len(requests) < MaxRequests
             /\ len + Len(requests) + 1 <= MaxLen

\* ---- try / catch / finally of the two async handlers ----
Fallback(op) == IF op = "analyzeMathProblem" THEN AnalysisFallback ELSE ChatFallback

\* the same handler without its catch block: the rejection escapes
AfterAwait_noCatch(op, res) ==
  IF res.status = "fulfilled"
  THEN [append |-> <<ModelMessage(res.value)>>, throws |-> FALSE, loading |-> FALSE]
  ELSE [append |-> <<>>, throws |-> TRUE, loading |-> FALSE]

\* what the handler that called op does once the awaited promise has
\* settled as res
AfterAwait(op, res) ==
  IF res.status = "fulfilled"
  THEN [append |-> <<ModelMessage(res.value)>>, throws |-> FALSE, loading |-> FALSE]
  ELSE [append |-> <<ModelMessage(Fallback(op))>>, throws |-> FALSE, loading |-> FALSE]

\* ---- initial state ----
Init ==
  /\ messages = <<>>
  /\ input = <<>>
  /\ isLoading = FALSE
  /\ selectedImage = None
  /\ mimeType = None
  /\ GEMINI_API_KEY \in BOOLEAN
  /\ requests = <<>>
  /\ readers = {}
  /\ unhandled = FALSE
  /\ lastCall = "App"

\* ---- actions ----
\* the hidden file input exists only in the welcome panel
FileInputMounted == Len(messages) = 0

handleImageUpload(file) ==
  /\ Idle
  /\ FileInputMounted
  /\ IF file = NoFile
     THEN UNCHANGED readers
     ELSE /\ file \notin readers
          /\ Cardinality(readers) < MaxReads
          /\ readers' = readers \cup {file}
  /\ lastCall' = "handleImageUpload"
  /\ UNCHANGED <<messages, input, isLoading, selectedImage, mimeType,
                 GEMINI_API_KEY, requests, unhandled>>

\* reader.onloadend (the read is taken to succeed), which runs
\* startInitialAnalysis up to its await
onloadend(file) ==
  /\ Idle
  /\ file \in readers
  /\ Room(1)
  /\ LET base64String == Split(readAsDataURL(file), ",")[2]
     IN /\ selectedImage' = Some(base64String)
        /\ mimeType' = Some(file.type)
        /\ isLoading' = TRUE
        /\ messages' = <<UserImageMessage(base64String, file.type)>>
        /\ requests' = Append(requests,
             [status |-> TutorCall(GEMINI_API_KEY), op |-> "analyzeMathProblem",
              imageBuffer |-> base64String, mimeType |-> file.type])
  /\ readers' = readers \ {file}
  /\ lastCall' = "onloadend"
  /\ UNCHANGED <<input, GEMINI_API_KEY, unhandled>>

setInput(text) ==
  /\ Idle
  /\ ~(isLoading \/ Len(messages) = 0)
  /\ input' = text
  /\ lastCall' = "setInput"
  /\ UNCHANGED <<messages, isLoading, selectedImage, mimeType,
                 GEMINI_API_KEY, requests, readers, unhandled>>

\* the form's onSubmit; it may fire in any state, the handler itself
\* decides whether the submission is accepted
handleSendMessage ==
  /\ Idle
  /\ IF Rejects(input, isLoading)
     THEN UNCHANGED <<messages, input, isLoading, requests>>
     ELSE /\ Room(Len(messages) + 1)
          /\ input' = <<>>
          /\ messages' = Append(messages, UserMessage(input))
          /\ isLoading' = TRUE
          /\ requests' = Append(requests,
               [status |-> TutorCall(GEMINI_API_KEY), op |-> "chatWithTutor",
                message |-> input, history |-> History(messages)])
  /\ lastCall' = "handleSendMessage"
  /\ UNCHANGED <<selectedImage, mimeType, GEMINI_API_KEY, readers, unhandled>>

\* a reset that forgets the staged image
resetTutor_keepsStaged ==
  /\ Idle
  /\ messages' = <<>>
  /\ input' = <<>>
  /\ lastCall' = "resetTutor"
  /\ UNCHANGED <<selectedImage, mimeType, isLoading, GEMINI_API_KEY,
                 requests, readers, unhandled>>

\* a reset that also abandons the outstanding requests
resetTutor_cancels ==
  /\ Idle
  /\ messages' = <<>>
  /\ selectedImage' = None
  /\ mimeType' = None
  /\ input' = <<>>
  /\ isLoading' = FALSE
  /\ requests' = <<>>
  /\ lastCall' = "resetTutor"
  /\ UNCHANGED <<GEMINI_API_KEY, readers, unhandled>>

resetTutor ==
  /\ Idle
  /\ messages' = <<>>
  /\ selectedImage' = None
  /\ mimeType' = None
  /\ input' = <<>>
  /\ lastCall' = "resetTutor"
  /\ UNCHANGED <<isLoading, GEMINI_API_KEY, requests, readers, unhandled>>

\* the handler of request i resumes with the settled promise res
Continue(i, res) ==
  /\ LET out == AfterAwait(requests[i].op, res)
     IN /\ messages' = messages \o out.append
        /\ unhandled' = (unhandled \/ out.throws)
        /\ isLoading' = out.loading
  /\ requests' = Remove(requests, i)
  /\ lastCall' = res.status
  /\ UNCHANGED <<input, selectedImage, mimeType, GEMINI_API_KEY, readers>>

\* the remote call of request i ends with outcome r and its handler resumes
Respond(i, r) ==
  /\ Idle
  /\ i \in DOMAIN requests
  /\ requests[i].status = "pending"
  /\ Continue(i, TutorResult(requests[i].op, r))

\* the handler of a call that was rejected at once (no API key) resumes
Resume(i) ==
  /\ i \in Rejected
  /\ Continue(i, [status |-> "rejected", value |-> <<>>])

Next ==
  \/ \E file \in Files \cup {NoFile} : handleImageUpload(file)
  \/ \E file \in Files : onloadend(file)
  \/ \E text \in TypedTexts : setInput(text)
  \/ handleSendMessage
  \/ resetTutor
  \/ \E i \in 1..MaxRequests, r \in RemoteOutcomes : Respond(i, r)
  \/ \E i \in 1..MaxRequests : Resume(i)

Spec == Init /\ [][Next]_vars

\* ---- properties ----
IsPrefix(s, t) == Len(s) <= Len(t) /\ SubSeq(t, 1, Len(s)) = s

Blank(s) == \A k \in 1..Len(s) : s[k] \in Whitespace

HasImageTurn(msgs) ==
  \E k \in 1..Len(msgs) : msgs[k].role = "user" /\ "image" \in DOMAIN msgs[k]

\* a request is handed to the Tutor Client in this step (it is the last of
\* requests')
Issued == Len(requests') = Len(requests) + 1

\* the handler of request i resumes in this step
Resumed(i) == i \in DOMAIN requests /\ requests' = Remove(requests, i)

\* the texts analyzeMathProblem can return
AnalysisTexts == {r.text : r \in {o \in RemoteOutcomes : o.ok /\ o.text # <<>>}}
                   \cup {AnalysisEmpty}

\* C1: in every reachable state at most one Tutor Client request is
\* outstanding, whatever the interleaving of uploads, submissions, resets
\* and completions.
C1_AtMostOneRequest == Len(requests) <= 1

\* C2: a handleSendMessage call made while isLoading is true, or with empty
\* or whitespace-only input, changes neither the transcript, the input nor
\* isLoading, and leaves no request or other pending work behind.
C2_RejectedSubmitIsNoOp ==
  [][(lastCall' = "handleSendMessage" /\ (isLoading \/ Blank(input)))
       => UNCHANGED <<messages, input, isLoading, requests, readers,
                      selectedImage, mimeType, unhandled>>]_vars

C2_Witness ==
  lastCall = "handleSendMessage" /\ isLoading /\ ~Blank(input)

\* C3: handleSendMessage is a no-op whenever the transcript holds no user
\* message carrying an image: it appends nothing and calls no chatWithTutor.
C3_NoImageTurnNoOp ==
  [][(lastCall' = "handleSendMessage" /\ ~HasImageTurn(messages))
       => (messages' = messages /\ requests' = requests)]_vars

\* C4: immediately after resetTutor, from any state, the transcript is empty
\* and the staged image and its MIME type are cleared.
C4_ResetClears ==
  lastCall = "resetTutor"
    => (Len(messages) = 0 /\ selectedImage = None /\ mimeType = None)

C4_Witness ==
  lastCall = "resetTutor" /\ isLoading /\ Len(requests) > 0 /\ readers # {}

\* C5: when an analyzeMathProblem request succeeds, the two messages of
\* that upload (the user message carrying the data URI, then the model
\* message carrying the returned text, without image) are the last two of
\* the transcript: nothing was added or removed between them.
C5_UploadAppendsTwo ==
  [][\A i \in 1..MaxRequests :
       (Resumed(i) /\ requests[i].op = "analyzeMathProblem"
          /\ lastCall' = "fulfilled")
       => /\ Len(messages') >= 2
          /\ \E t \in AnalysisTexts :
               SubSeq(messages', Len(messages') - 1, Len(messages')) =
                 <<[role |-> "user", content |-> UploadPrompt,
                    image |-> <<"data:", requests[i].mimeType, ";base64", ",">>
                                \o requests[i].imageBuffer],
                   [role |-> "model", content |-> t]>>]_vars

\* C6: whenever a Tutor Client call fails, exactly one model message with
\* the fallback string of that operation is appended, no exception leaves
\* the handler, and isLoading is cleared.
C6_FailureFallback ==
  [][\A i \in 1..MaxRequests :
       (Resumed(i) /\ lastCall' = "rejected")
       => /\ messages' = Append(messages,
               [role |-> "model",
                content |-> IF requests[i].op = "analyzeMathProblem"
                            THEN AnalysisFallback ELSE ChatFallback])
          /\ ~unhandled'
          /\ ~isLoading']_vars

C6_Witness ==
  /\ lastCall = "rejected"
  /\ ~isLoading
  /\ Len(messages) >= 2
  /\ messages[Len(messages)] = [role |-> "model", content |-> ChatFallback]

\* C7: the history passed to chatWithTutor is, in order, one entry
\* {role, parts: [{text: content}]} for each message that was in the
\* transcript before the new user message was appended, with no image field
\* and without the submitted text.
C7_HistoryProjection ==
  [][(Issued /\ requests'[Len(requests')].op = "chatWithTutor")
       => LET h == requests'[Len(requests')].history
          IN /\ Len(h) = Len(messages)
             /\ Len(messages') = Len(messages) + 1
             /\ requests'[Len(requests')].message = messages'[Len(messages')].content
             /\ \A k \in 1..Len(h) :
                  /\ DOMAIN h[k] = {"role", "parts"}
                  /\ h[k].role = messages[k].role
                  /\ h[k].parts = <<[text |-> messages[k].content]>>]_vars

C7_Witness ==
  \E i \in DOMAIN requests :
    /\ requests[i].op = "chatWithTutor"
    /\ Len(requests[i].history) >= 2
    /\ HasImageTurn(messages)
    /\ lastCall = "handleSendMessage"

\* C8: every step other than resetTutor leaves the previous transcript an
\* unchanged prefix of the new one, and resetTutor removes every message.
C8_AppendOnly ==
  [][IF lastCall' = "resetTutor"
     THEN messages' = <<>>
     ELSE IsPrefix(messages, messages')]_vars

\* C9: resetTutor neither cancels nor invalidates an outstanding request;
\* when the request resolves, its model message is still appended to the
\* transcript as it then stands.
C9_ResetDoesNotCancel ==
  [][/\ lastCall' = "resetTutor"
          => (requests' = requests /\ isLoading' = isLoading)
     /\ \A i \in 1..MaxRequests :
          Resumed(i) => /\ Len(messages') = Len(messages) + 1
                        /\ IsPrefix(messages, messages')
                        /\ messages'[Len(messages')].role = "model"
                        /\ DOMAIN messages'[Len(messages')] = {"role", "content"}]_vars

C9_Witness ==
  /\ lastCall \in {"fulfilled", "rejected"}
  /\ Len(messages) = 1
  /\ messages[1].role = "model"

\* C10: isLoading is true exactly when a Tutor Client request is
\* outstanding.
C10_LoadingIffOutstanding == isLoading <=> (Len(requests) > 0)

====
